---- MODULE Spec2Model ----
(***************************************************************************)
(* Model of clean_data.py: finalize_property_data, the final pass over the *)
(* cleaned property listings (row filter, imputation, Age_in_Years,        *)
(* Water_Availability_Status, Price_per_sqft, column selection, save) and  *)
(* the __main__ block that calls it.                                       *)
(*                                                                         *)
(* Representation.                                                         *)
(*   text    a sequence of one-character strings, so that the regular      *)
(*           expression, str.replace and str.strip act on characters;      *)
(*   number  fixed point, in units of 1/Scale (Scale = 10^2, the two       *)
(*           decimals of .round(2)): 2.5 is 250, -1 is -100;               *)
(*   cell    [k, n, s]: k = "nan" (missing), "num" (n holds the number),   *)
(*           "str" (s holds the text) or "inf" (a division by zero);       *)
(*   frame   [cols |-> sequence of column names, rows |-> sequence of      *)
(*           functions from the column names to cells].                    *)
(***************************************************************************)
EXTENDS Integers, Sequences, FiniteSets, TLC

VARIABLES
    fs_input, \* the file at input_csv_path: NoFile or the frame read_csv returns
    pc,       \* position in the run; it starts at "main" when the file is run as a
              \* script (lines 97-107) and at "load" when the function is called
    df,       \* the dataframe held by finalize_property_data (NoFrame before the load)
    fs_output,\* the file at output_csv_path: NoFile or the frame to_csv wrote
    raised,   \* "none" or the exception that left finalize_property_data
    console   \* the messages printed, in order

vars == <<fs_input, pc, df, fs_output, raised, console>>

\* ------------------------------------------------------------------ bounds
MaxRows == 3
MaxRowsShortSchema == 1

\* ------------------------------------------------------------------ numbers
Scale == 100

Abs(x) == IF x < 0 THEN -x ELSE x

\* ------------------------------------------------------------------ cells
NaN == [k |-> "nan", n |-> 0, s |-> <<>>]
Inf == [k |-> "inf", n |-> 0, s |-> <<>>]
Num(x) == [k |-> "num", n |-> x, s |-> <<>>]
Str(t) == [k |-> "str", n |-> 0, s |-> t]
Whole(v) == Num(v * Scale)

isna(c) == c.k = "nan"

NoFile == [cols |-> <<>>, rows |-> <<>>, exists |-> FALSE]
NoFrame == [cols |-> <<>>, rows |-> <<>>]

Range(f) == {f[i] : i \in DOMAIN f}
HasCol(frame, col) == col \in Range(frame.cols)

\* ------------------------------------------------------------------ text literals of the code
NotSpecified == <<"N", "o", "t", " ", "S", "p", "e", "c", "i", "f", "i", "e", "d">>
NewConstruction == <<"N", "e", "w", " ", "C", "o", "n", "s", "t", "r", "u", "c", "t", "i", "o", "n">>
LessThan5 == <<"L", "e", "s", "s", " ", "t", "h", "a", "n", " ", "5", " ", "y", "e", "a", "r", "s", " ", "o", "l", "d">>
From5To10 == <<"5", " ", "t", "o", " ", "1", "0", " ", "y", "e", "a", "r", "s", " ", "o", "l", "d">>
From10To15 == <<"1", "0", " ", "t", "o", " ", "1", "5", " ", "y", "e", "a", "r", "s", " ", "o", "l", "d">>
From15To20 == <<"1", "5", " ", "t", "o", " ", "2", "0", " ", "y", "e", "a", "r", "s", " ", "o", "l", "d">>
Above20 == <<"A", "b", "o", "v", "e", " ", "2", "0", " ", "y", "e", "a", "r", "s", " ", "o", "l", "d">>
HourLit == <<"H", "o", "u", "r">>

numerical_cols ==
    <<"Washrooms", "Floor_Number", "Total_Floors", "Open_Sides",
      "Plot_Length", "Plot_Breadth", "Entrance_Width_ft", "Road_Width_m">>

categorical_cols ==
    <<"Property_Age", "Zoning", "Facing", "Overlooking",
      "Pantry", "Furnishing_Status", "Possession_Date">>

final_cols_order ==
    <<"Property_Type", "Transaction_Type", "Location", "latitude", "longitude", "Price",
      "Area_sqft", "Price_per_sqft", "area_type", "Construction_Status",
      "Age_in_Years", "Possession_Date", "Furnishing_Status", "Zoning", "Facing",
      "Overlooking", "Pantry", "Water_Availability_Status", "Washrooms", "Floor_Number",
      "Total_Floors", "Covered_Parking", "Open_Parking", "Open_Sides", "Plot_Length",
      "Plot_Breadth", "Entrance_Width_ft", "Road_Width_m">>

\* age_map of step 2, as a function from the text to the number (in 1/Scale)
age_map ==
    (NewConstruction :> 0) @@ (LessThan5 :> 250) @@ (From5To10 :> 750) @@
    (From10To15 :> 1250) @@ (From15To20 :> 1750) @@ (Above20 :> 2500) @@
    (NotSpecified :> -100)

\* ------------------------------------------------------------------ text operations
Digits == {"0", "1", "2", "3", "4", "5", "6", "7", "8", "9"}
\* the characters \s and str.strip() treat as whitespace (the ASCII ones)
Whitespace == {" ", "\t", "\n", "\r", "\f"}

\* the index after the longest run of characters of class `cls` that starts at i
RECURSIVE RunEnd(_, _, _)
RunEnd(t, i, cls) ==
    IF i <= Len(t) /\ t[i] \in cls THEN RunEnd(t, i + 1, cls) ELSE i

LitAt(t, i, lit) ==
    /\ i + Len(lit) - 1 <= Len(t)
    /\ \A j \in 1..Len(lit) : t[i + j - 1] = lit[j]

Max(S) == CHOOSE x \in S : \A y \in S : y <= x
Min(S) == CHOOSE x \in S : \A y \in S : x <= y

\* r'(\d+\s*Hours?)' tried at position i: the pairs <<a, b>> with t[i..a-1] one or
\* more digits, t[a..b-1] whitespace and "Hour" at b
HourSplits(t, i) ==
    {ab \in (i + 1..RunEnd(t, i, Digits)) \X (i + 1..Len(t) + 1) :
        /\ ab[2] >= ab[1]
        /\ ab[2] <= RunEnd(t, ab[1], Whitespace)
        /\ LitAt(t, ab[2], HourLit)}

\* the end (exclusive) of the match the backtracking matcher takes at i, 0 if none:
\* \d+ and \s* are greedy, and so is the optional s
MatchEnd(t, i) ==
    IF HourSplits(t, i) = {} THEN 0
    ELSE LET a == Max({ab[1] : ab \in HourSplits(t, i)})
             b == Max({ab[2] : ab \in {x \in HourSplits(t, i) : x[1] = a}})
             e == b + Len(HourLit)
         IN  IF e <= Len(t) /\ t[e] = "s" THEN e + 1 ELSE e

\* Series.str.extract on one cell: group 1 of the first (leftmost) match, NaN if the
\* cell is missing or nothing matches
str_extract(c) ==
    IF c.k # "str" THEN NaN
    ELSE LET starts == {i \in 1..Len(c.s) : MatchEnd(c.s, i) # 0}
         IN  IF starts = {} THEN NaN
             ELSE Str(SubSeq(c.s, Min(starts), MatchEnd(c.s, Min(starts)) - 1))

NotBlank(ch) == ch # " "

\* Series.str.replace(' ', '') on one cell
str_replace_space(c) ==
    IF c.k # "str" THEN c ELSE Str(SelectSeq(c.s, NotBlank))

\* Series.str.strip() on one cell
str_strip(c) ==
    IF c.k # "str" THEN c
    ELSE LET keep == {i \in 1..Len(c.s) : c.s[i] \notin Whitespace}
         IN  IF keep = {} THEN Str(<<>>) ELSE Str(SubSeq(c.s, Min(keep), Max(keep)))

\* ------------------------------------------------------------------ frame operations
Column(frame, col) == [i \in 1..Len(frame.rows) |-> frame.rows[i][col]]

\* df[name] = values: a new column goes last, an existing one is overwritten in place
AssignCol(frame, name, values) ==
    [cols |-> IF HasCol(frame, name) THEN frame.cols ELSE Append(frame.cols, name),
     rows |-> [i \in 1..Len(frame.rows) |->
                 [c \in Range(frame.cols) \cup {name} |->
                     IF c = name THEN values[i] ELSE frame.rows[i][c]]]]

\* df[cols]: the listed columns, in the listed order
Project(frame, colseq) ==
    [cols |-> colseq,
     rows |-> [i \in 1..Len(frame.rows) |->
                 [c \in Range(colseq) |-> frame.rows[i][c]]]]

\* fillna(value) on one cell; a NaN value fills nothing
fillna(c, value) == IF isna(c) THEN value ELSE c

\* ascending insertion sort of a sequence of integers
RECURSIVE Insert(_, _)
Insert(sorted, x) ==
    IF sorted = <<>> THEN <<x>>
    ELSE IF x <= Head(sorted) THEN <<x>> \o sorted
    ELSE <<Head(sorted)>> \o Insert(Tail(sorted), x)

RECURSIVE Sort(_)
Sort(q) == IF q = <<>> THEN <<>> ELSE Insert(Sort(Tail(q)), Head(q))

IsNumCell(c) == c.k = "num"

\* Series.median(): NaN are skipped; the middle value, or the mean of the two middle
\* values; NaN when nothing is left
median(cells) ==
    LET v == SelectSeq(cells, IsNumCell)
        sorted == Sort([i \in 1..Len(v) |-> v[i].n])
        n == Len(sorted)
    IN  IF n = 0 THEN NaN
        ELSE IF n % 2 = 1 THEN Num(sorted[(n + 1) \div 2])
        ELSE Num((sorted[n \div 2] + sorted[n \div 2 + 1]) \div 2)

\* (Price / Area_sqft).round(2) on one pair of cells: the quotient to the nearest
\* 1/Scale, a tie to the even neighbour (numpy's rint); x/0 is inf, 0/0 and anything
\* with NaN is NaN
div_round_trunc(p, a) ==
    IF isna(p) \/ isna(a) THEN NaN
    ELSE IF a.n = 0 THEN (IF p.n = 0 THEN NaN ELSE Inf)
    ELSE LET den == Abs(a.n)
             mag == (Abs(p.n) \div den) * Scale + ((Abs(p.n) % den) * Scale) \div den
         IN  Num(IF (p.n < 0) = (a.n < 0) THEN mag ELSE -mag)

div_round(p, a) ==
    IF isna(p) \/ isna(a) THEN NaN
    ELSE IF a.n = 0 THEN (IF p.n = 0 THEN NaN ELSE Inf)
    ELSE LET den == Abs(a.n)
             num == (Abs(p.n) % den) * Scale
             q == (Abs(p.n) \div den) * Scale + num \div den
             r == num % den
             mag == IF 2 * r < den THEN q
                    ELSE IF 2 * r > den THEN q + 1
                    ELSE IF q % 2 = 0 THEN q ELSE q + 1
         IN  Num(IF (p.n < 0) = (a.n < 0) THEN mag ELSE -mag)

\* ------------------------------------------------------------------ the steps of finalize_property_data
\* step 0 with the comparison Area_sqft >= 0
row_filter_ge(frame) ==
    LET present(row) == ~isna(row["Price"]) /\ ~isna(row["Area_sqft"])
        positive(row) == row["Area_sqft"].n >= 0
        dropped == [cols |-> frame.cols, rows |-> SelectSeq(frame.rows, present)]
    IN  [cols |-> dropped.cols, rows |-> SelectSeq(dropped.rows, positive)]

\* step 0: dropna(subset=['Price', 'Area_sqft']), then df[df['Area_sqft'] > 0]
row_filter(frame) ==
    LET present(row) == ~isna(row["Price"]) /\ ~isna(row["Area_sqft"])
        positive(row) == row["Area_sqft"].n > 0
        dropped == [cols |-> frame.cols, rows |-> SelectSeq(frame.rows, present)]
    IN  [cols |-> dropped.cols, rows |-> SelectSeq(dropped.rows, positive)]

\* the fill value taken over the file as read, before step 0
median_val_unfiltered(col) == median(Column(fs_input, col))

\* median_val = df[col].median(), df being the frame step 0 left
median_val(col) == median(Column(df, col))

\* step 1: the two imputation loops; each column present is filled on its own.
\* df[col].fillna(..., inplace=True) is taken to write through to df, as it does
\* in the pandas versions without copy-on-write
impute(frame) ==
    [cols |-> frame.cols,
     rows |-> [i \in 1..Len(frame.rows) |->
                 [c \in Range(frame.cols) |->
                     IF c \in Range(numerical_cols)
                         THEN fillna(frame.rows[i][c], median_val(c))
                     ELSE IF c \in Range(categorical_cols)
                         THEN fillna(frame.rows[i][c], Str(NotSpecified))
                     ELSE frame.rows[i][c]]]]

\* step 2 without the trailing fillna(-1)
age_in_years_unfilled(c) ==
    IF c.k = "str" /\ c.s \in DOMAIN age_map THEN Num(age_map[c.s]) ELSE NaN

\* step 2 on one cell: .map(age_map).fillna(-1)
age_in_years(c) ==
    fillna(IF c.k = "str" /\ c.s \in DOMAIN age_map THEN Num(age_map[c.s]) ELSE NaN,
           Num(-1 * Scale))

\* read_csv gives a column the object dtype when it holds text, float64 when every
\* value is a number or missing; .str exists on object columns only
has_str_accessor(col) == \E i \in 1..Len(fs_input.rows) : fs_input.rows[i][col].k = "str"

\* step 3 on one cell: extract, fillna('Not Specified'), replace(' ', ''), strip()
water_availability_status(c) ==
    str_strip(str_replace_space(fillna(str_extract(c), Str(NotSpecified))))

\* step 5 keeping the frame's own column order
existing_final_cols_unordered(frame) ==
    LET canonical(col) == col \in Range(final_cols_order)
    IN  SelectSeq(frame.cols, canonical)

\* step 5: [col for col in final_cols_order if col in df.columns]
existing_final_cols(frame) ==
    LET existing(col) == HasCol(frame, col)
    IN  SelectSeq(final_cols_order, existing)

\* df.drop(columns=[...], errors='ignore')
drop_columns(frame, names) ==
    LET kept(col) == col \notin names
    IN  Project(frame, SelectSeq(frame.cols, kept))

Say(msg) == console' = Append(console, msg)

Fail(exc) ==
    /\ raised' = exc
    /\ pc' = "done"
    /\ UNCHANGED <<df, console>>

\* lines 97-107: the script checks the input path before it calls the function
Main ==
    /\ pc = "main"
    /\ IF fs_input.exists
           THEN pc' = "load" /\ UNCHANGED console
           ELSE pc' = "done" /\ Say("ERROR: The input file was not found at the path")
    /\ UNCHANGED <<fs_input, df, fs_output, raised>>

\* lines 10-15 with no except clause: the FileNotFoundError leaves the function
LoadUncaught ==
    /\ pc = "load"
    /\ IF fs_input.exists
           THEN /\ df' = [cols |-> fs_input.cols, rows |-> fs_input.rows]
                /\ pc' = "step0"
                /\ Say("Loading cleaned data")
                /\ UNCHANGED raised
           ELSE Fail("FileNotFoundError")
    /\ UNCHANGED <<fs_input, fs_output>>

\* lines 10-15: read_csv; a missing file is reported and the function returns
Load ==
    /\ pc = "load"
    /\ IF fs_input.exists
           THEN /\ df' = [cols |-> fs_input.cols, rows |-> fs_input.rows]
                /\ pc' = "step0"
                /\ Say("Loading cleaned data")
           ELSE /\ pc' = "done"
                /\ console' = console \o <<"Loading cleaned data", "Error: The file was not found">>
                /\ UNCHANGED df
    /\ UNCHANGED <<fs_input, fs_output, raised>>

\* lines 19-23: the row filter; df[...] of an absent column raises KeyError
Step0 ==
    /\ pc = "step0"
    /\ IF HasCol(df, "Price") /\ HasCol(df, "Area_sqft")
           THEN /\ df' = row_filter(df)
                /\ pc' = "step1"
                /\ Say("Step 0: Removed rows with missing Price or Area")
                /\ UNCHANGED raised
           ELSE Fail("KeyError")
    /\ UNCHANGED <<fs_input, fs_output>>

\* lines 27-45
Step1 ==
    /\ pc = "step1"
    /\ df' = impute(df)
    /\ pc' = "step2"
    /\ Say("Step 1: Imputing remaining missing values")
    /\ UNCHANGED <<fs_input, fs_output, raised>>

\* lines 48-58
Step2 ==
    /\ pc = "step2"
    /\ IF HasCol(df, "Property_Age")
           THEN /\ df' = AssignCol(df, "Age_in_Years",
                            [i \in 1..Len(df.rows) |-> age_in_years(df.rows[i]["Property_Age"])])
                /\ pc' = "step3"
                /\ Say("Step 2: Converting Property_Age")
                /\ UNCHANGED raised
           ELSE /\ Fail("KeyError")
    /\ UNCHANGED <<fs_input, fs_output>>

\* lines 61-63
Step3 ==
    /\ pc = "step3"
    /\ IF ~HasCol(df, "Water Availability") THEN Fail("KeyError")
       ELSE IF ~has_str_accessor("Water Availability") THEN Fail("AttributeError")
       ELSE /\ df' = AssignCol(df, "Water_Availability_Status",
                        [i \in 1..Len(df.rows) |->
                            water_availability_status(df.rows[i]["Water Availability"])])
            /\ pc' = "step4"
            /\ Say("Step 3: Parsing Water Availability")
            /\ UNCHANGED raised
    /\ UNCHANGED <<fs_input, fs_output>>

\* lines 66-67
Step4 ==
    /\ pc = "step4"
    /\ df' = AssignCol(df, "Price_per_sqft",
                 [i \in 1..Len(df.rows) |->
                     div_round(df.rows[i]["Price"], df.rows[i]["Area_sqft"])])
    /\ pc' = "step5"
    /\ Say("Step 4: Creating Price_per_sqft")
    /\ UNCHANGED <<fs_input, fs_output, raised>>

\* lines 70-83: df becomes df_final
Step5 ==
    /\ pc = "step5"
    /\ LET pruned == drop_columns(df, {"Property_Age", "Water Availability"})
       IN  df' = Project(pruned, existing_final_cols(pruned))
    /\ pc' = "save"
    /\ Say("Step 5: Finalizing the dataframe")
    /\ UNCHANGED <<fs_input, fs_output, raised>>

\* lines 86-94: to_csv(index=False), then the closing report
Save ==
    /\ pc = "save"
    /\ fs_output' = [cols |-> df.cols, rows |-> df.rows, exists |-> TRUE]
    /\ pc' = "done"
    /\ console' = console \o <<"Saving analysis-ready data", "Final Processing Complete">>
    /\ UNCHANGED <<fs_input, df, raised>>

Next == Main \/ Load \/ Step0 \/ Step1 \/ Step2 \/ Step3 \/ Step4 \/ Step5 \/ Save

\* ------------------------------------------------------------------ the input files
East == <<"E", "a", "s", "t">>
GreenPark == <<"G", "r", "e", "e", "n", " ", "P", "a", "r", "k">>
UnderConstruction == <<"U", "n", "d", "e", "r", " ", "C", "o", "n", "s", "t", "r", "u", "c", "t", "i", "o", "n">>
WaterScenario == <<"A", "v", "a", "i", "l", "a", "b", "l", "e", " ", "1", "2", " ", "H", "o", "u", "r", "s", " ", "a", " ", "d", "a", "y">>
WaterTab == <<"1", "2", "\t", "H", "o", "u", "r", "s">>
WaterNone == <<"N", "o", " ", "w", "a", "t", "e", "r">>
WaterTwoMatches == <<"3", "H", "o", "u", "r", " ", "o", "r", " ", "2", "4", " ", "H", "o", "u", "r", "s">>
WaterTwoSpaces == <<"2", "4", " ", " ", "H", "o", "u", "r", "s", " ", "d", "a", "i", "l", "y">>
WaterLowerCase == <<"2", "4", " ", "h", "o", "u", "r", "s">>
WaterNewline == <<"S", "u", "p", "p", "l", "y", " ", "6", " ", "\n", "H", "o", "u", "r">>
WaterDigitsApart == <<"1", " ", "2", "H", "o", "u", "r", "s", "s">>

\* the columns of the input file, in the file's order; Society is no canonical column
FullSchema ==
    <<"Washrooms", "Society", "Price", "Area_sqft", "Property_Age",
      "Water Availability", "Facing">>

MkRow(price, area, washrooms, age, water, facing) ==
    ("Washrooms" :> washrooms) @@ ("Society" :> Str(GreenPark)) @@ ("Price" :> price) @@
    ("Area_sqft" :> area) @@ ("Property_Age" :> age) @@
    ("Water Availability" :> water) @@ ("Facing" :> facing)

\* rows the filter keeps
KeptRowInputs ==
    { MkRow(Whole(10000), Whole(5), Whole(2), Str(From5To10), Str(WaterScenario), Str(East)),
      MkRow(Whole(2), Whole(3), NaN, NaN, NaN, NaN),
      MkRow(Whole(1), Whole(8), Whole(1), Str(NewConstruction), Str(WaterTab), Str(East)),
      MkRow(Whole(5), Whole(3), Whole(4), Str(Above20), Str(WaterTwoMatches), Str(East)),
      MkRow(Whole(0), Whole(8), NaN, Str(NotSpecified), Str(WaterNewline), NaN),
      MkRow(Whole(7), Whole(3), Whole(7), Str(UnderConstruction), Str(WaterNone), Str(East)),
      MkRow(Whole(-5), Whole(8), Whole(1), Str(LessThan5), Str(WaterTwoSpaces), NaN),
      MkRow(Whole(2), Whole(3), Whole(4), Str(From10To15), Str(WaterLowerCase), Str(East)),
      MkRow(Whole(3), Whole(8), Whole(2), Str(From15To20), Str(WaterDigitsApart), Str(East)) }

\* rows the filter drops
DroppedRowInputs ==
    { MkRow(NaN, Whole(3), Whole(9), Str(LessThan5), Str(WaterNone), NaN),
      MkRow(Whole(2), NaN, Whole(9), Str(From10To15), Str(WaterTwoSpaces), Str(East)),
      MkRow(Whole(2), Whole(0), Whole(9), Str(From15To20), Str(WaterScenario), Str(East)),
      MkRow(Whole(2), Whole(-3), NaN, Str(Above20), Str(WaterLowerCase), NaN) }

RowInputs == KeptRowInputs \cup DroppedRowInputs

\* the sequences over S of length 1..n
SeqsUpTo(S, n) == UNION {[1..m -> S] : m \in 1..n}

Without(colseq, col) ==
    LET other(c) == c # col
    IN  SelectSeq(colseq, other)

\* a file with every column of FullSchema and 1..MaxRows data rows, or a file that
\* lacks one column and has 1..MaxRowsShortSchema data rows
InputFiles ==
    { [cols |-> FullSchema, rows |-> rows, exists |-> TRUE] :
          rows \in SeqsUpTo(RowInputs, MaxRows) }
    \cup
    { [exists |-> TRUE] @@ Project([cols |-> FullSchema, rows |-> sr[2]], Without(FullSchema, sr[1])) :
          sr \in Range(FullSchema) \X SeqsUpTo(RowInputs, MaxRowsShortSchema) }

Init ==
    /\ fs_input \in InputFiles \cup {NoFile}
    /\ pc \in {"main", "load"}
    /\ df = NoFrame
    /\ fs_output = NoFile
    /\ raised = "none"
    /\ console = <<>>

Spec == Init /\ [][Next]_vars

\* ------------------------------------------------------------------ what the claims speak of
Done == pc = "done"
Written == fs_output.exists

\* the input rows with Price present, Area_sqft present and Area_sqft > 0
Qualifying ==
    {j \in 1..Len(fs_input.rows) :
        /\ fs_input.rows[j]["Price"].k = "num"
        /\ fs_input.rows[j]["Area_sqft"].k = "num"
        /\ fs_input.rows[j]["Area_sqft"].n > 0}

\* the input row that the i-th qualifying row is
Source(i) ==
    fs_input.rows[CHOOSE j \in Qualifying : Cardinality({k \in Qualifying : k <= j}) = i]

OutRows == 1..Len(fs_output.rows)

\* C1: the rows written are exactly the input rows with Price present, Area_sqft
\* present and Area_sqft > 0, in the input order, so no written row has a missing
\* Price, a missing Area_sqft or an Area_sqft <= 0
C1_RowFilter ==
    Written =>
        /\ Len(fs_output.rows) = Cardinality(Qualifying)
        /\ \A i \in OutRows :
              /\ fs_output.rows[i]["Price"] = Source(i)["Price"]
              /\ fs_output.rows[i]["Area_sqft"] = Source(i)["Area_sqft"]
              /\ fs_output.rows[i]["Price"].k = "num"
              /\ fs_output.rows[i]["Area_sqft"].k = "num"
              /\ fs_output.rows[i]["Area_sqft"].n > 0

\* a file was written from an input with a row of Area_sqft <= 0, a row with a
\* missing Price or Area_sqft, and a row that was kept
C1_Witness ==
    /\ Written
    /\ Len(fs_output.rows) >= 1
    /\ \E j \in 1..Len(fs_input.rows) :
          fs_input.rows[j]["Area_sqft"].k = "num" /\ fs_input.rows[j]["Area_sqft"].n <= 0
    /\ \E j \in 1..Len(fs_input.rows) :
          isna(fs_input.rows[j]["Price"]) \/ isna(fs_input.rows[j]["Area_sqft"])

DeclaredImputed ==
    {"Washrooms", "Floor_Number", "Total_Floors", "Open_Sides", "Plot_Length",
     "Plot_Breadth", "Entrance_Width_ft", "Road_Width_m",
     "Zoning", "Facing", "Overlooking", "Pantry", "Furnishing_Status", "Possession_Date"}

\* C2: no declared numeric or categorical column of the written table holds a
\* missing value, also when the column is missing in every row the filter keeps
C2_NoMissingAfterImputation ==
    Written =>
        \A i \in OutRows : \A c \in DeclaredImputed \cap Range(fs_output.cols) :
            ~isna(fs_output.rows[i][c])

\* the columns a step of the pipeline reads
ExpectedCols ==
    {"Price", "Area_sqft", "Property_Age", "Water Availability"}
    \cup Range(numerical_cols) \cup Range(categorical_cols)

\* C3: when the input lacks a column that a step expects, that step is skipped, no
\* error leaves the run for it and the output is written
C3_AbsentColumnSkipped ==
    (Done /\ fs_input.exists /\ ~(ExpectedCols \subseteq Range(fs_input.cols))) =>
        /\ raised # "KeyError"
        /\ raised = "none" => Written

\* C4: with no file at the input path, no output file is ever written and no
\* error is raised; the run ends having printed the error message, the script's
\* own when run as a script, the function's when called
C4_MissingInputNoOutput ==
    ~fs_input.exists =>
        /\ fs_output = NoFile
        /\ raised = "none"
        /\ Done => \/ console = <<"ERROR: The input file was not found at the path">>
                   \/ console = <<"Loading cleaned data", "Error: The file was not found">>

\* the function was called on a missing file and has returned
C4_Witness ==
    /\ ~fs_input.exists
    /\ Done
    /\ Len(console) = Len(<<"Loading cleaned data", "Error: The file was not found">>)

\* C5: Water_Availability_Status holds no whitespace character in any written row
C5_NoWhitespace ==
    Written =>
        \A i \in OutRows :
            LET status == fs_output.rows[i]["Water_Availability_Status"]
            IN  \A x \in 1..Len(status.s) : status.s[x] \notin Whitespace

NotWhitespace(ch) == ch \notin Whitespace

\* C6: Water_Availability_Status is the literal "Not Specified" when the input text
\* is missing or has no match, and the first match without its whitespace otherwise
C6_StatusValue ==
    Written =>
        \A i \in OutRows :
            LET found == str_extract(Source(i)["Water Availability"])
                status == fs_output.rows[i]["Water_Availability_Status"]
            IN  IF isna(found) THEN status = Str(NotSpecified)
                ELSE status = Str(SelectSeq(found.s, NotWhitespace))

\* C7: Age_in_Years of a written row is the lookup-table image of the input row's
\* Property_Age, and -1 for every other value and for a missing one; it is never
\* missing and always one of 0, 2.5, 7.5, 12.5, 17.5, 25, -1
C7_AgeMapping ==
    Written =>
        \A i \in OutRows :
            LET age == Source(i)["Property_Age"]
                years == fs_output.rows[i]["Age_in_Years"]
            IN  /\ years.k = "num"
                /\ years.n \in {0, 250, 750, 1250, 1750, 2500, -100}
                /\ age = Str(NewConstruction) => years.n = 0
                /\ age = Str(LessThan5) => years.n = 250
                /\ age = Str(From5To10) => years.n = 750
                /\ age = Str(From10To15) => years.n = 1250
                /\ age = Str(From15To20) => years.n = 1750
                /\ age = Str(Above20) => years.n = 2500
                /\ age \notin {Str(NewConstruction), Str(LessThan5), Str(From5To10),
                               Str(From10To15), Str(From15To20), Str(Above20)}
                       => years.n = -100

\* a written table with a row whose Property_Age was missing, a row with a label of
\* the table and a row with a label outside it
C7_Witness ==
    /\ Written
    /\ \E i \in OutRows : isna(Source(i)["Property_Age"])
    /\ \E i \in OutRows : Source(i)["Property_Age"] = Str(From5To10)
    /\ \E i \in OutRows : Source(i)["Property_Age"] = Str(UnderConstruction)

\* the columns of df when step 5 selects: the input's and the three derived ones,
\* without the two that step 5 drops
ColsAfterDerivation ==
    (Range(fs_input.cols) \cup {"Age_in_Years", "Water_Availability_Status", "Price_per_sqft"})
        \ {"Property_Age", "Water Availability"}

Position(colseq, col) == CHOOSE x \in 1..Len(colseq) : colseq[x] = col

\* the written columns are a subsequence of final_cols_order that keeps every listed
\* column present after derivation, and neither dropped column is written
OutputColsCanonical ==
    /\ \A x \in 1..Len(fs_output.cols) : fs_output.cols[x] \in Range(final_cols_order)
    /\ \A x, y \in 1..Len(fs_output.cols) :
          x < y => Position(final_cols_order, fs_output.cols[x])
                       < Position(final_cols_order, fs_output.cols[y])
    /\ \A c \in Range(final_cols_order) \cap ColsAfterDerivation : c \in Range(fs_output.cols)
    /\ "Property_Age" \notin Range(fs_output.cols)
    /\ "Water Availability" \notin Range(fs_output.cols)

\* C8 as stated: the written columns are a subsequence of the canonical list, which
\* has 27 names, and Property_Age and Water Availability are never written
C8_Canonical27 ==
    Written => (OutputColsCanonical /\ Len(final_cols_order) = 27)

\* C8 as amended: the same, the canonical list having 28 names
C8_Canonical28 ==
    Written => (OutputColsCanonical /\ Len(final_cols_order) = 28)

\* a table was written whose input had Washrooms before Price and a column outside
\* the canonical list
C8_Witness ==
    /\ Written
    /\ HasCol(fs_input, "Society")
    /\ HasCol(fs_input, "Washrooms")
    /\ Position(fs_input.cols, "Washrooms") < Position(fs_input.cols, "Price")
    /\ Position(fs_output.cols, "Price") < Position(fs_output.cols, "Washrooms")

\* C9: Price_per_sqft of a written row is a number, the multiple of 1/Scale nearest
\* to that row's Price / Area_sqft
C9_PricePerSqft ==
    Written =>
        \A i \in OutRows :
            LET price == fs_output.rows[i]["Price"]
                area == fs_output.rows[i]["Area_sqft"]
                ratio == fs_output.rows[i]["Price_per_sqft"]
            IN  /\ ratio.k = "num"
                /\ 2 * Abs(ratio.n * area.n - price.n * Scale) <= area.n

\* a written row whose ratio had to be rounded
C9_Witness ==
    /\ Written
    /\ \E i \in OutRows :
          fs_output.rows[i]["Price_per_sqft"].n * fs_output.rows[i]["Area_sqft"].n
              # fs_output.rows[i]["Price"].n * Scale

\* the values of column c that are present in the rows the filter keeps
KeptValues(c) ==
    LET present == {j \in Qualifying : fs_input.rows[j][c].k = "num"}
    IN  [j \in present |-> fs_input.rows[j][c].n]

\* x is the k-th smallest of the values v
IsKth(v, x, k) ==
    /\ Cardinality({j \in DOMAIN v : v[j] < x}) < k
    /\ k <= Cardinality({j \in DOMAIN v : v[j] <= x})

\* m is the median of the values v (v not empty)
IsMedian(v, m) ==
    LET n == Cardinality(DOMAIN v)
    IN  \E a, b \in DOMAIN v :
            /\ IsKth(v, v[a], (n + 1) \div 2)
            /\ IsKth(v, v[b], n \div 2 + 1)
            /\ 2 * m = v[a] + v[b]

\* C10: in every declared numeric column present, a cell that was present is written
\* unchanged and a cell that was missing is written as the median of the values
\* present in the rows the filter keeps (nothing is filled when no such value exists)
C10_MedianAfterFilter ==
    Written =>
        \A c \in Range(numerical_cols) \cap Range(fs_input.cols) : \A i \in OutRows :
            LET before == Source(i)[c]
                after == fs_output.rows[i][c]
            IN  IF ~isna(before) THEN after = before
                ELSE IF DOMAIN KeptValues(c) = {} THEN isna(after)
                ELSE after.k = "num" /\ IsMedian(KeptValues(c), after.n)

\* a missing Washrooms cell was filled while a dropped row held a value that would
\* have changed the median
C10_Witness ==
    /\ Written
    /\ HasCol(fs_input, "Washrooms")
    /\ \E i \in OutRows :
          /\ isna(Source(i)["Washrooms"])
          /\ fs_output.rows[i]["Washrooms"].k = "num"
          /\ fs_output.rows[i]["Washrooms"] # median(Column(fs_input, "Washrooms"))

====
